---- MODULE Spec2Model ----
(***************************************************************************)
(* Model of the vidgen render pipeline (src/render/mod.rs render_project   *)
(* and the helpers it calls).  Durations are f64 seconds in the source and *)
(* integer milliseconds here.  Option<T> is a sequence of length 0 or 1.   *)
(***************************************************************************)
EXTENDS Integers, Sequences, FiniteSets, TLC

\* ---------------------------------------------------------------- bounds
MaxScenes == 2
MaxFormats == 2
MaxParallel == 1

\* ------------------------------------------------------ program constants
DefaultParallelScenes == 4
default_padding_before == 500
default_padding_after == 500
default_auto_fallback == 3000
default_transition_duration == 500

\* ------------------------------------------------------------ Option<T>
NoneOpt == <<>>
SomeOpt(x) == <<x>>
IsSome(o) == Len(o) = 1
Unwrap(o) == o[1]
UnwrapOrMutant(o, d) == d
UnwrapOr(o, d) == IF IsSome(o) THEN o[1] ELSE d

\* ------------------------------------------------------------ Result<T,E>
Ok(v) == [tag |-> "Ok", val |-> v]
Err(e) == [tag |-> "Err", err |-> e]
IsOk(r) == r.tag = "Ok"
IsErr(r) == r.tag = "Err"

\* VidgenError::Browser(String), ::Ffmpeg(String), ::Io(..): a variant and a
\* message.
VidgenError(kind, msg) == [kind |-> kind, msg |-> msg]

\* The scene index / format name an error value carries as a parameter of
\* its variant, if it carries one.
ErrorSceneIndex(e) ==
    IF "scene_index" \in DOMAIN e THEN SomeOpt(e.scene_index) ELSE NoneOpt
ErrorFormatName(e) ==
    IF "format_name" \in DOMAIN e THEN SomeOpt(e.format_name) ELSE NoneOpt

\* ------------------------------------------------------------ scenes
Auto == [tag |-> "Auto"]
Fixed(d) == [tag |-> "Fixed", d |-> d]

resolveMutant(duration, tts_duration, padding_before, padding_after, fallback) ==
    IF IsSome(tts_duration)
    THEN Unwrap(tts_duration) + padding_before + padding_after
    ELSE IF duration.tag = "Auto" THEN fallback ELSE duration.d

\* SceneDuration::resolve
resolve(duration, tts_duration, padding_before, padding_after, fallback) ==
    IF duration.tag = "Auto"
    THEN IF IsSome(tts_duration)
         THEN Unwrap(tts_duration) + padding_before + padding_after
         ELSE fallback
    ELSE duration.d

\* str::to_lowercase on the names the model uses.
to_lowercase(s) ==
    CASE s = "NONE" -> "none"
      [] s = "Fade" -> "fade"
      [] OTHER -> s

TransitionType_from_strMutant(s) ==
    CASE to_lowercase(s) = "zoom" -> "Zoom"
      [] OTHER -> "Fade"

\* TransitionType::from_str
TransitionType_from_str(s) ==
    CASE to_lowercase(s) = "fade" -> "Fade"
      [] to_lowercase(s) \in {"slide-left", "slideleft", "slide_left"} -> "SlideLeft"
      [] to_lowercase(s) \in {"slide-right", "slideright", "slide_right"} -> "SlideRight"
      [] to_lowercase(s) = "zoom" -> "Zoom"
      [] to_lowercase(s) \in {"wipe", "wipeleft", "wipe-left"} -> "Wipe"
      [] to_lowercase(s) \in {"none", ""} -> "None"
      [] OTHER -> "Fade"

OrOptMutant(a, b) == IF IsSome(b) THEN b ELSE a

\* Option::or
OrOpt(a, b) == IF IsSome(a) THEN a ELSE b

resolve_transitionMutant(scene_out, scene_in, video_config) ==
    LET transition_name == OrOpt(scene_out.transition_out,
                                 OrOpt(scene_in.transition_in,
                                       video_config.default_transition))
    IN  IF ~IsSome(transition_name) THEN NoneOpt
        ELSE IF TransitionType_from_str(Unwrap(transition_name)) = "None"
                /\ ~IsSome(video_config.default_transition)
        THEN NoneOpt
        ELSE SomeOpt([transition_type |-> TransitionType_from_str(Unwrap(transition_name)),
                      duration |-> UnwrapOr(OrOpt(scene_out.transition_duration,
                                                  scene_in.transition_duration),
                                            video_config.default_transition_duration)])

\* resolve_transition
resolve_transition(scene_out, scene_in, video_config) ==
    LET transition_name == OrOpt(scene_out.transition_out,
                                 OrOpt(scene_in.transition_in,
                                       video_config.default_transition))
    IN  IF ~IsSome(transition_name) THEN NoneOpt
        ELSE IF TransitionType_from_str(Unwrap(transition_name)) = "None" THEN NoneOpt
        ELSE SomeOpt([transition_type |-> TransitionType_from_str(Unwrap(transition_name)),
                      duration |-> UnwrapOr(OrOpt(scene_out.transition_duration,
                                                  scene_in.transition_duration),
                                            video_config.default_transition_duration)])

Scene(duration, script_empty, t_in, t_out, t_dur) ==
    [duration |-> duration, script_empty |-> script_empty,
     transition_in |-> t_in, transition_out |-> t_out,
     transition_duration |-> t_dur]

\* The scene kinds of the model's projects: a narrated fixed-length scene, a
\* narrated Auto scene, and a fixed-length scene without narration text.
SceneKinds ==
    << Scene(Fixed(4000), FALSE, NoneOpt, NoneOpt, NoneOpt),
       Scene(Auto, FALSE, NoneOpt, NoneOpt, NoneOpt),
       Scene(Fixed(3000), TRUE, NoneOpt, NoneOpt, NoneOpt) >>

\* A project of n scenes cycling through the kinds; with fading, every scene
\* declares transition_out = "fade".
ProjectScenes(n, fading) ==
    [k \in 1..n |->
        IF fading
        THEN [SceneKinds[((k - 1) % 3) + 1] EXCEPT !.transition_out = SomeOpt("fade")]
        ELSE SceneKinds[((k - 1) % 3) + 1]]

SceneLists == { ProjectScenes(n, fading) : n \in 0..MaxScenes, fading \in BOOLEAN }

\* ------------------------------------------------------------ formats
AllFormatNames == <<"landscape", "portrait", "square", "wide">>

\* config.video.formats: absent, or a BTreeMap whose keys iterate in
\* sorted order (a prefix of AllFormatNames, possibly empty).
FormatTables ==
    {NoneOpt} \cup { SomeOpt(SubSeq(AllFormatNames, 1, n)) : n \in 0..MaxFormats }

FormatFilters == {NoneOpt, SomeOpt({"landscape"})}

RECURSIVE FilterNames(_, _)
FilterNames(names, keep) ==
    IF names = <<>> THEN <<>>
    ELSE IF Head(names) \in keep
         THEN <<Head(names)>> \o FilterNames(Tail(names), keep)
         ELSE FilterNames(Tail(names), keep)

\* resolve_formats: the names of the formats to render, in render order.
resolve_formats(format_table, format_filter) ==
    IF IsSome(format_table)
    THEN IF IsSome(format_filter)
         THEN FilterNames(Unwrap(format_table), Unwrap(format_filter))
         ELSE Unwrap(format_table)
    ELSE <<"default">>

\* ------------------------------------------------------------ paths
SceneOutput(fmt_name, i) == <<"tmp", fmt_name, i>>

OutputPath(total_formats, fmt_name) ==
    IF total_formats = 1 /\ fmt_name = "default"
    THEN <<"out", "slug">>
    ELSE <<"out", "slug", fmt_name>>

AllOutputPaths ==
    {<<"out", "slug">>} \cup
    { <<"out", "slug", n>> : n \in {AllFormatNames[k] : k \in 1..4} \cup {"default"} }

NoFile == [kind |-> "absent"]


\* ------------------------------------------------------------ progress
\* steps_per_format: one capture step and one encode step per scene + concat
\* (faulty variant: the concat step is not counted)
steps_per_formatMutant(num_scenes) == num_scenes * 2
steps_per_format(num_scenes) == num_scenes * 2 + 1

\* total_steps: TTS steps + per-format work
total_steps_of(num_scenes, total_formats) ==
    num_scenes + total_formats * steps_per_format(num_scenes)

\* `done` of the "Scene i captured" report
scene_done(num_scenes, fmt_idx, i) ==
    num_scenes + (fmt_idx * steps_per_format(num_scenes) + i + 1)

\* `done` of the "Format complete" report
format_done(num_scenes, fmt_idx) ==
    num_scenes + ((fmt_idx + 1) * steps_per_format(num_scenes))

Report(done, total, message) == [done |-> done, total |-> total, message |-> message]

\* ------------------------------------------------------------ capture stage
\* config.video.parallel_scenes.unwrap_or(4)
max_parallel_of(parallel_scenes) == UnwrapOr(parallel_scenes, DefaultParallelScenes)

\* buffer_unordered(max): a new capture future is pulled from the scene
\* stream only while fewer than max are in progress.
\* (faulty variant: off by one, admits max + 1 captures)
CanSpawnMutant(in_progress, max) == in_progress <= max
CanSpawn(in_progress, max) == in_progress < max

\* Errors a scene capture can end with (capture_scene_frames, SceneEncoder).
CaptureErrors ==
    { VidgenError("Browser", "Screenshot failed"),
      VidgenError("Ffmpeg", "FFmpeg encoding failed") }

\* The value one capture future resolves to: Ok((i, path, dur)) or the error
\* of capture_scene_frames, passed through `?` unchanged.
CaptureOk(fmt_name, i, durations) ==
    Ok([i |-> i, path |-> SceneOutput(fmt_name, i), dur |-> durations[i + 1]])

\* let (i, path, dur) = result?: the slot the k-th collected result goes to
\* is the scene index the capture future carried, not its arrival position k.
\* (faulty variant: results stored in arrival order)
CollectIndexMutant(r, k) == k - 1
CollectIndex(r, k) == r.val.i

\* scene_files[i] = path; scene_durs[i] = dur  (0-based i, 1-based sequences)
Place(vec, i, v) == [vec EXCEPT ![i + 1] = v]

\* vec![PathBuf::new(); n] / vec![0.0; n]
NewVec(default, n) == [k \in 1..n |-> default]
EmptyPath == <<>>

\* ------------------------------------------------------------ concatenation
HasTransitions(transitions) == \E k \in 1..Len(transitions) : IsSome(transitions[k])

ConcatRouteMutant(scene_files, transitions) ==
    IF Len(scene_files) = 1 THEN "copy" ELSE "xfade"

\* concat_scenes_with_transitions / concat_scenes: which path produces the output
ConcatRoute(scene_files, transitions) ==
    IF Len(scene_files) = 1 THEN "copy"
    ELSE IF ~HasTransitions(transitions) THEN "concat_demuxer"
    ELSE "xfade"

Video(files, durs, route, burned) ==
    [kind |-> "video", files |-> files, durs |-> durs, route |-> route,
     burned |-> burned]


\* ------------------------------------------------------------ state
VARIABLES
    config,              \* ProjectConfig: video.formats, video.parallel_scenes, output.subtitles
    scenes,              \* &[Scene]
    format_filter,       \* Option<&[String]>
    pc,                  \* position in render_project
    formats,             \* resolve_formats(config, format_filter)
    tts_engine,          \* Option<engine>: <<>> before create_engine, then <<TRUE>> / <<FALSE>>
    audio_paths,         \* Vec<Option<PathBuf>>
    tts_durations,       \* Vec<Option<f64>>
    tts_calls,           \* history: scene indices synthesize_cached was called for
    effective_durations, \* Vec<f64>
    transitions,         \* Vec<Option<SceneTransition>>
    passes,              \* history: how often the duration / transition pass ran
    total_steps,         \* denominator of every progress report
    reports,             \* history: the (done, total, message) passed to progress.report
    results,             \* Vec<FormatOutput>
    fmt_idx,             \* index of the format being rendered
    browsers,            \* format indices whose browser is live
    launched,            \* history: format indices whose browser was launched
    next_scene,          \* position of stream::iter(0..scenes.len())
    in_flight,           \* scene indices whose capture future is in progress
    scene_results,       \* Vec of capture results, in completion order
    completion_order,    \* history: scene index of each entry of scene_results
    collected,           \* number of scene_results consumed by the collect loop
    scene_files,         \* Vec<PathBuf>
    scene_durs,          \* Vec<f64>
    outputs,             \* output directory: path -> video content / NoFile
    srt_files,           \* output directory: video path -> subtitle content / NoFile
    subtitle_path,       \* Option<PathBuf> of the current format
    concat_done,         \* history: format indices whose concatenation returned Ok
    concat_args,         \* history: (scene_files, scene_durs) handed to the concatenator
    written,             \* history: content of each finished format's output file
    raised,              \* history: where the returned error came from
    result,              \* Option<VidgenResult<Vec<FormatOutput>>>
    \* --- one call of capture_scene_frames (browser.rs)
    c_pc,                \* position in capture_scene_frames
    c_in,                \* its arguments: effective_duration, fps, and whether the
                         \* rendered markup has animation markers
    page,                \* the tab: "none", "open", "closed"
    signals,             \* the custom properties last injected into the tab
    encoder,             \* the scene's SceneEncoder: state and frames written to stdin
    frame,               \* loop variable of `for frame in 0..total_frames`
    scene_file,          \* the file at the scene's output_path
    c_ret,               \* Option<VidgenResult<PathBuf>>
    \* --- one call of a pure function
    call,                \* the function and its arguments
    ret,                 \* Option<return value>
    \* --- one SceneEncoder and its FFmpeg child (encoder.rs)
    writer,              \* the thread calling write_frame and finish
    stdin_pipe,          \* the OS pipe into the child's stdin
    ffmpeg,              \* the child process
    stderr_pipe,         \* the OS pipe out of the child's stderr
    stderr_thread,       \* the thread spawned in SceneEncoder::new
    unblocked            \* history: the stderr thread read from a full stderr
                         \* pipe while the writer stood at a full stdin pipe

inputVars == <<config, scenes, format_filter>>
ttsVars == <<tts_engine, audio_paths, tts_durations, tts_calls>>
resolveVars == <<effective_durations, transitions, passes>>
progressVars == <<total_steps, reports>>
captureVars == <<next_scene, in_flight, scene_results, completion_order>>
collectVars == <<collected, scene_files, scene_durs>>
fileVars == <<outputs, srt_files>>
historyVars == <<concat_done, concat_args, written>>

captureCallVars == <<c_pc, c_in, page, signals, encoder, frame, scene_file, c_ret>>
pureVars == <<call, ret>>
encoderVars == <<writer, stdin_pipe, ffmpeg, stderr_pipe, stderr_thread, unblocked>>
sideVars == <<captureCallVars, pureVars, encoderVars>>

renderVars == <<config, scenes, format_filter, pc, formats, tts_engine, audio_paths,
          tts_durations, tts_calls, effective_durations, transitions, passes,
          total_steps, reports, results, fmt_idx, browsers, launched,
          next_scene, in_flight, scene_results, completion_order, collected,
          scene_files, scene_durs, outputs, srt_files, subtitle_path,
          concat_done, concat_args, written, raised, result>>

vars == <<renderVars, sideVars>>

NumScenes == Len(scenes)
TotalFormats == Len(formats)
FmtName == formats[fmt_idx + 1]
MaxParallelNow == max_parallel_of(config.video.parallel_scenes)

SubtitleConfigs ==
    { [enabled |-> FALSE, burn_in |-> FALSE],
      [enabled |-> TRUE, burn_in |-> FALSE],
      [enabled |-> TRUE, burn_in |-> TRUE] }

ParallelOptions == {NoneOpt} \cup { SomeOpt(n) : n \in 0..MaxParallel }

Configs ==
    { [video |-> [formats |-> ft, parallel_scenes |-> ps,
                  default_transition |-> NoneOpt,
                  default_transition_duration |-> default_transition_duration],
       voice |-> [padding_before |-> default_padding_before,
                  padding_after |-> default_padding_after,
                  auto_fallback_duration |-> default_auto_fallback],
       output |-> [subtitles |-> sc]] :
      ft \in FormatTables, ps \in ParallelOptions, sc \in SubtitleConfigs }

NoEncoder == [state |-> "none", frames |-> <<>>]

\* No capture_scene_frames call is being followed.
CaptureCallIdle ==
    /\ c_pc = "idle"
    /\ c_in = <<>>
    /\ page = "none"
    /\ signals = <<>>
    /\ encoder = NoEncoder
    /\ frame = 0
    /\ scene_file = NoFile
    /\ c_ret = NoneOpt

\* No pure-function call is being followed.
PureIdle ==
    /\ call = <<>>
    /\ ret = NoneOpt

\* No SceneEncoder is being followed.
EncoderIdle ==
    /\ writer = <<>>
    /\ stdin_pipe = <<>>
    /\ ffmpeg = <<>>
    /\ stderr_pipe = <<>>
    /\ stderr_thread = <<>>
    /\ unblocked = FALSE

\* The locals of render_project before its first statement.
RenderLocalsInit ==
    /\ formats = <<>>
    /\ tts_engine = <<>>
    /\ audio_paths = <<>>
    /\ tts_durations = <<>>
    /\ tts_calls = <<>>
    /\ effective_durations = <<>>
    /\ transitions = <<>>
    /\ passes = [durations |-> 0, transitions |-> 0]
    /\ total_steps = 0
    /\ reports = <<>>
    /\ results = <<>>
    /\ fmt_idx = 0
    /\ browsers = {}
    /\ launched = <<>>
    /\ next_scene = 0
    /\ in_flight = {}
    /\ scene_results = <<>>
    /\ completion_order = <<>>
    /\ collected = 0
    /\ scene_files = <<>>
    /\ scene_durs = <<>>
    /\ outputs = [p \in AllOutputPaths |-> NoFile]
    /\ srt_files = [p \in AllOutputPaths |-> NoFile]
    /\ subtitle_path = NoneOpt
    /\ concat_done = {}
    /\ concat_args = <<>>
    /\ written = <<>>
    /\ raised = <<>>
    /\ result = NoneOpt

Init ==
    /\ config \in Configs
    /\ scenes \in SceneLists
    /\ format_filter \in FormatFilters
    /\ pc = "setup"
    /\ RenderLocalsInit
    /\ CaptureCallIdle
    /\ PureIdle
    /\ EncoderIdle

\* render_project is not running (the state the other specifications keep
\* the render variables in).
RenderIdle ==
    /\ config = CHOOSE c \in Configs : TRUE
    /\ scenes = <<>>
    /\ format_filter = NoneOpt
    /\ pc = "idle"
    /\ RenderLocalsInit

\* `?` on an error inside render_project: the function returns the error
\* unchanged; the locals, the live Browser among them, are dropped.
Fail(e, stage, scene) ==
    /\ pc' = "failed"
    /\ result' = SomeOpt(Err(e))
    /\ raised' = SomeOpt([stage |-> stage, fmt_idx |-> fmt_idx, scene |-> scene])
    /\ browsers' = {}


\* ------------------------------------------------------------ render_project
\* QualityPreset, TemplateRegistry, resolve_formats, create_dir_all, tempdir.
Setup ==
    /\ pc = "setup"
    /\ formats' = resolve_formats(config.video.formats, format_filter)
    /\ \/ /\ pc' = "create_engine"
          /\ UNCHANGED <<result, raised, browsers>>
       \/ Fail(VidgenError("Io", "create_dir_all failed"), "setup", NoneOpt)
    /\ UNCHANGED <<sideVars, inputVars, ttsVars, resolveVars, progressVars, results, fmt_idx,
                   launched, captureVars, collectVars, fileVars, subtitle_path,
                   historyVars>>

\* tts::create_engine: Ok(engine) => Some(engine), Err => None (not fatal).
CreateEngine ==
    /\ pc = "create_engine"
    /\ \E available \in BOOLEAN : tts_engine' = SomeOpt(available)
    /\ pc' = "tts"
    /\ UNCHANGED <<sideVars, inputVars, formats, audio_paths, tts_durations, tts_calls,
                   resolveVars, progressVars, results, fmt_idx, browsers, launched,
                   captureVars, collectVars, fileVars, subtitle_path, historyVars,
                   raised, result>>

TtsDurations == {2000}

\* Err(e) of synthesize_cached: what is pushed to tts_durations for the scene.
\* (faulty variant: a failed synthesis counts as narration of length zero)
FailedTtsDurationMutant == SomeOpt(0)
FailedTtsDuration == NoneOpt

\* One iteration of the TTS loop, for scene i = audio_paths.len().
SynthesizeScene ==
    /\ pc = "tts"
    /\ Len(tts_durations) < NumScenes
    /\ LET i == Len(tts_durations)
           scene == scenes[i + 1]
       IN  IF scene.script_empty \/ ~Unwrap(tts_engine)
           THEN /\ audio_paths' = Append(audio_paths, NoneOpt)
                /\ tts_durations' = Append(tts_durations, NoneOpt)
                /\ UNCHANGED tts_calls
           ELSE /\ tts_calls' = Append(tts_calls, i)
                /\ \/ \E d \in TtsDurations :
                        /\ tts_durations' = Append(tts_durations, SomeOpt(d))
                        /\ audio_paths' = Append(audio_paths, SomeOpt(<<"wav", i>>))
                   \/ /\ audio_paths' = Append(audio_paths, NoneOpt)
                      /\ tts_durations' = Append(tts_durations, FailedTtsDuration)
    /\ UNCHANGED <<sideVars, inputVars, pc, formats, tts_engine, resolveVars, progressVars,
                   results, fmt_idx, browsers, launched, captureVars, collectVars,
                   fileVars, subtitle_path, historyVars, raised, result>>

\* Duration resolution pass.
ResolveDurations ==
    /\ pc = "tts"
    /\ Len(tts_durations) = NumScenes
    /\ effective_durations' =
         [k \in 1..NumScenes |->
            resolve(scenes[k].duration, tts_durations[k],
                    config.voice.padding_before, config.voice.padding_after,
                    config.voice.auto_fallback_duration)]
    /\ passes' = [passes EXCEPT !.durations = @ + 1]
    /\ pc' = "transitions"
    /\ UNCHANGED <<sideVars, inputVars, formats, ttsVars, transitions, progressVars, results,
                   fmt_idx, browsers, launched, captureVars, collectVars, fileVars,
                   subtitle_path, historyVars, raised, result>>

\* Transition resolution between adjacent scenes.
ResolveTransitions ==
    /\ pc = "transitions"
    /\ transitions' =
         IF NumScenes > 1
         THEN [k \in 1..(NumScenes - 1) |->
                 resolve_transition(scenes[k], scenes[k + 1], config.video)]
         ELSE <<>>
    /\ passes' = [passes EXCEPT !.transitions = @ + 1]
    /\ pc' = "report_tts"
    /\ UNCHANGED <<sideVars, inputVars, formats, ttsVars, effective_durations, progressVars,
                   results, fmt_idx, browsers, launched, captureVars, collectVars,
                   fileVars, subtitle_path, historyVars, raised, result>>

\* total_steps and the "TTS synthesis complete" report.
ReportTts ==
    /\ pc = "report_tts"
    /\ total_steps' = total_steps_of(NumScenes, TotalFormats)
    /\ reports' = Append(reports,
                         Report(NumScenes, total_steps_of(NumScenes, TotalFormats),
                                "TTS synthesis complete"))
    /\ results' = <<>>
    /\ pc' = "format"
    /\ UNCHANGED <<sideVars, inputVars, formats, ttsVars, resolveVars, fmt_idx, browsers,
                   launched, captureVars, collectVars, fileVars, subtitle_path,
                   historyVars, raised, result>>


\* Head of the per-format loop: the next format, or the end of the loop.
\* browser::launch_browser(width, height).await?
LaunchBrowser ==
    /\ pc = "format"
    /\ fmt_idx < TotalFormats
    /\ \/ /\ browsers' = browsers \cup {fmt_idx}
          /\ launched' = Append(launched, fmt_idx)
          /\ pc' = "prepare"
          /\ UNCHANGED <<result, raised>>
       \/ /\ Fail(VidgenError("Browser", "Failed to launch browser"), "launch", NoneOpt)
          /\ UNCHANGED launched
    /\ UNCHANGED <<sideVars, inputVars, formats, ttsVars, resolveVars, progressVars, results,
                   fmt_idx, captureVars, collectVars, fileVars, subtitle_path,
                   historyVars>>

\* create_dir_all(fmt_temp_dir)?, apply_format_overrides, scene_prep, and
\* the construction of the buffered capture stream.
PrepareFormat ==
    /\ pc = "prepare"
    /\ \/ /\ pc' = "capture"
          /\ next_scene' = 0
          /\ in_flight' = {}
          /\ scene_results' = <<>>
          /\ completion_order' = <<>>
          /\ UNCHANGED <<result, raised, browsers>>
       \/ /\ Fail(VidgenError("Io", "create_dir_all failed"), "prepare", NoneOpt)
          /\ UNCHANGED captureVars
    /\ UNCHANGED <<sideVars, inputVars, formats, ttsVars, resolveVars, progressVars, results,
                   fmt_idx, launched, collectVars, fileVars, subtitle_path,
                   historyVars>>

\* buffer_unordered pulls the next scene index from the stream and starts
\* its capture future (one tab and one encoder per capture).
SpawnCapture ==
    /\ pc = "capture"
    /\ next_scene < NumScenes
    /\ CanSpawn(Cardinality(in_flight), MaxParallelNow)
    /\ in_flight' = in_flight \cup {next_scene}
    /\ next_scene' = next_scene + 1
    /\ UNCHANGED <<sideVars, inputVars, pc, formats, ttsVars, resolveVars, progressVars,
                   results, fmt_idx, browsers, launched, scene_results,
                   completion_order, collectVars, fileVars, subtitle_path,
                   historyVars, raised, result>>

\* One in-flight capture future resolves; its result is appended to the
\* collected Vec in completion order.  The buffer is refilled before the
\* in-progress futures are polled.
CompleteCapture(i) ==
    /\ pc = "capture"
    /\ i \in in_flight
    /\ ~(next_scene < NumScenes /\ CanSpawn(Cardinality(in_flight), MaxParallelNow))
    /\ \E r \in {CaptureOk(FmtName, i, effective_durations)}
                  \cup { Err(e) : e \in CaptureErrors } :
          scene_results' = Append(scene_results, r)
    /\ completion_order' = Append(completion_order, i)
    /\ in_flight' = in_flight \ {i}
    /\ UNCHANGED <<sideVars, inputVars, pc, formats, ttsVars, resolveVars, progressVars,
                   results, fmt_idx, browsers, launched, next_scene, collectVars,
                   fileVars, subtitle_path, historyVars, raised, result>>

\* The stream is exhausted and nothing is in progress: collect() returns.
\* The stream is only ever polled while fewer than max futures are in progress.
CaptureStageDone ==
    /\ pc = "capture"
    /\ next_scene = NumScenes
    /\ in_flight = {}
    /\ CanSpawn(0, MaxParallelNow)
    /\ pc' = "collect"
    /\ collected' = 0
    /\ scene_files' = NewVec(EmptyPath, NumScenes)
    /\ scene_durs' = NewVec(0, NumScenes)
    /\ UNCHANGED <<sideVars, inputVars, formats, ttsVars, resolveVars, progressVars, results,
                   fmt_idx, browsers, launched, captureVars, fileVars,
                   subtitle_path, historyVars, raised, result>>

\* One iteration of `for result in scene_results`.
CollectResult ==
    /\ pc = "collect"
    /\ collected < Len(scene_results)
    /\ LET r == scene_results[collected + 1]
       IN  IF IsErr(r)
           THEN /\ Fail(r.err, "capture", SomeOpt(completion_order[collected + 1]))
                /\ UNCHANGED <<collectVars, reports>>
           ELSE LET i == CollectIndex(r, collected + 1)
                IN  /\ scene_files' = Place(scene_files, i, r.val.path)
                    /\ scene_durs' = Place(scene_durs, i, r.val.dur)
                    /\ reports' = Append(reports,
                                     Report(scene_done(NumScenes, fmt_idx, i),
                                            total_steps, "Scene captured"))
                    /\ collected' = collected + 1
                    /\ UNCHANGED <<pc, result, raised, browsers>>
    /\ UNCHANGED <<sideVars, inputVars, formats, ttsVars, resolveVars, total_steps, results,
                   fmt_idx, launched, captureVars, fileVars, subtitle_path,
                   historyVars>>

\* (faulty variant: the browser is kept alive across formats)
CloseBrowserMutant ==
    /\ pc = "collect"
    /\ collected = Len(scene_results)
    /\ browsers' = browsers
    /\ pc' = "concat"
    /\ UNCHANGED <<sideVars, inputVars, formats, ttsVars, resolveVars, progressVars, results,
                   fmt_idx, launched, captureVars, collectVars, fileVars,
                   subtitle_path, historyVars, raised, result>>
\* drop(browser); handler_handle.abort();
CloseBrowser ==
    /\ pc = "collect"
    /\ collected = Len(scene_results)
    /\ browsers' = browsers \ {fmt_idx}
    /\ pc' = "concat"
    /\ UNCHANGED <<sideVars, inputVars, formats, ttsVars, resolveVars, progressVars, results,
                   fmt_idx, launched, captureVars, collectVars, fileVars,
                   subtitle_path, historyVars, raised, result>>


\* encoder::concat_scenes_with_transitions(&scene_files, &scene_durs, &transitions,
\* &output_path, &platform)?
Concat ==
    /\ pc = "concat"
    /\ concat_args' = Append(concat_args,
                             [fmt_idx |-> fmt_idx, scene_files |-> scene_files,
                              scene_durs |-> scene_durs])
    /\ LET path == OutputPath(TotalFormats, FmtName)
           route == ConcatRoute(scene_files, transitions)
       IN  \/ /\ outputs' = [outputs EXCEPT
                               ![path] = Video(scene_files, scene_durs, route, FALSE)]
              /\ concat_done' = concat_done \cup {fmt_idx}
              /\ pc' = "subtitles"
              /\ UNCHANGED <<result, raised, browsers>>
           \/ /\ Fail(IF route = "copy"
                      THEN VidgenError("Io", "copy failed")
                      ELSE VidgenError("Ffmpeg", "FFmpeg concat failed"),
                      "concat", NoneOpt)
              /\ UNCHANGED <<outputs, concat_done>>
    /\ UNCHANGED <<sideVars, inputVars, formats, ttsVars, resolveVars, progressVars, results,
                   fmt_idx, launched, captureVars, collectVars, srt_files,
                   subtitle_path, written>>

RECURSIVE SumFirst(_, _)
SumFirst(seq, n) == IF n = 0 THEN 0 ELSE SumFirst(seq, n - 1) + seq[n]

\* Scenes that contribute words to the subtitle file (0-based indices):
\* non-empty script, narration synthesized, and estimate_word_timestamps
\* returns words (total_duration > 0).
SubtitledScenes ==
    { i \in 0..(NumScenes - 1) :
        /\ ~scenes[i + 1].script_empty
        /\ IsSome(tts_durations[i + 1])
        /\ effective_durations[i + 1] > 0 }

\* scene_offset when the loop reaches scene i: the sum of the effective
\* durations of scenes 0..i-1.
scene_offset(i) == SumFirst(effective_durations, i)

SrtContent ==
    [kind |-> "srt",
     offsets |-> [i \in SubtitledScenes |-> scene_offset(i)]]

\* Generate subtitles if enabled: std::fs::write(&srt_path, &srt_content)?
Subtitles ==
    /\ pc = "subtitles"
    /\ LET path == OutputPath(TotalFormats, FmtName)
       IN  IF config.output.subtitles.enabled /\ SubtitledScenes # {}
           THEN \/ /\ srt_files' = [srt_files EXCEPT ![path] = SrtContent]
                   /\ subtitle_path' = SomeOpt(<<"srt", path>>)
                   /\ pc' = "burn_in"
                   /\ UNCHANGED <<result, raised, browsers>>
                \/ /\ Fail(VidgenError("Io", "write failed"), "subtitles", NoneOpt)
                   /\ UNCHANGED <<srt_files, subtitle_path>>
           ELSE /\ subtitle_path' = NoneOpt
                /\ pc' = "burn_in"
                /\ UNCHANGED <<srt_files, result, raised, browsers>>
    /\ UNCHANGED <<sideVars, inputVars, formats, ttsVars, resolveVars, progressVars, results,
                   fmt_idx, launched, captureVars, collectVars, outputs,
                   historyVars>>

\* Burn subtitles into video if requested: encoder::burn_in_subtitles(..)?
\* renames the video to a temp file, re-encodes it to the video path and
\* removes the temp file whether or not the re-encode succeeded.
BurnIn ==
    /\ pc = "burn_in"
    /\ LET path == OutputPath(TotalFormats, FmtName)
       IN  IF config.output.subtitles.burn_in /\ IsSome(subtitle_path)
           THEN \/ /\ outputs' = [outputs EXCEPT ![path].burned = TRUE]
                   /\ pc' = "push"
                   /\ UNCHANGED <<result, raised, browsers>>
                \/ /\ Fail(VidgenError("Io", "rename failed"), "burn_in", NoneOpt)
                   /\ UNCHANGED outputs
                \/ /\ Fail(VidgenError("Ffmpeg", "FFmpeg subtitle burn-in failed"),
                           "burn_in", NoneOpt)
                   /\ outputs' = [outputs EXCEPT ![path] = NoFile]
           ELSE /\ pc' = "push"
                /\ UNCHANGED <<outputs, result, raised, browsers>>
    /\ UNCHANGED <<sideVars, inputVars, formats, ttsVars, resolveVars, progressVars, results,
                   fmt_idx, launched, captureVars, collectVars, srt_files,
                   subtitle_path, historyVars>>

FormatOutput(format_name, output_path, durations, subtitle) ==
    [format_name |-> format_name, output_path |-> output_path,
     effective_durations |-> durations, subtitle_path |-> subtitle]

\* Where control goes at the end of one iteration of the per-format loop.
\* (faulty variant: transition resolution sits inside the per-format loop)
LoopBackMutant == "transitions"
LoopBack == "format"

\* results.push(FormatOutput {..}) and the "Format complete" report.
FinishFormat ==
    /\ pc = "push"
    /\ LET path == OutputPath(TotalFormats, FmtName)
       IN  /\ results' = Append(results,
                                FormatOutput(FmtName, path, effective_durations,
                                             subtitle_path))
           /\ written' = Append(written, outputs[path])
    /\ reports' = Append(reports,
                         Report(format_done(NumScenes, fmt_idx), total_steps,
                                "Format complete"))
    /\ fmt_idx' = fmt_idx + 1
    /\ pc' = LoopBack
    /\ UNCHANGED <<sideVars, inputVars, formats, ttsVars, resolveVars, total_steps, browsers,
                   launched, captureVars, collectVars, fileVars, subtitle_path,
                   concat_done, concat_args, raised, result>>

\* (faulty variant: the function returns after the first pass of the loop head)
FinishMutant ==
    /\ pc = "format"
    /\ reports' = Append(reports, Report(total_steps, total_steps, "Render complete"))
    /\ result' = SomeOpt(Ok(results))
    /\ pc' = "done"
    /\ UNCHANGED <<sideVars, inputVars, formats, ttsVars, resolveVars, total_steps, results,
                   fmt_idx, browsers, launched, captureVars, collectVars, fileVars,
                   subtitle_path, historyVars, raised>>

\* The loop is over: the "Render complete" report and Ok(results).
Finish ==
    /\ pc = "format"
    /\ fmt_idx >= TotalFormats
    /\ reports' = Append(reports, Report(total_steps, total_steps, "Render complete"))
    /\ result' = SomeOpt(Ok(results))
    /\ pc' = "done"
    /\ UNCHANGED <<sideVars, inputVars, formats, ttsVars, resolveVars, total_steps, results,
                   fmt_idx, browsers, launched, captureVars, collectVars, fileVars,
                   subtitle_path, historyVars, raised>>

Next ==
    \/ Setup
    \/ CreateEngine
    \/ SynthesizeScene
    \/ ResolveDurations
    \/ ResolveTransitions
    \/ ReportTts
    \/ LaunchBrowser
    \/ PrepareFormat
    \/ SpawnCapture
    \/ \E i \in 0..(MaxScenes - 1) : CompleteCapture(i)
    \/ CaptureStageDone
    \/ CollectResult
    \/ CloseBrowser
    \/ Concat
    \/ Subtitles
    \/ BurnIn
    \/ FinishFormat
    \/ Finish

Spec == Init /\ [][Next]_vars


\* ================================================================ claims
Returned == IsSome(result)
ReturnedErr == IsSome(result) /\ IsErr(Unwrap(result))
FailedInFormat == ReturnedErr /\ Unwrap(raised).stage # "setup"

\* C1: for every format, max concurrency and completion order, the list
\* handed to the concatenator holds at position i the output file and the
\* duration of scene i.
C1_ConcatInputInSceneOrder ==
    \A k \in 1..Len(concat_args) :
        LET a == concat_args[k]
        IN  /\ Len(a.scene_files) = NumScenes
            /\ Len(a.scene_durs) = NumScenes
            /\ \A i \in 0..(NumScenes - 1) :
                  /\ a.scene_files[i + 1] = SceneOutput(formats[a.fmt_idx + 1], i)
                  /\ a.scene_durs[i + 1] = effective_durations[i + 1]

\* C1 witness: a concatenation after scene 1 completed before scene 0.
C1_Witness ==
    /\ pc = "subtitles"
    /\ Len(completion_order) >= 2
    /\ completion_order[1] > completion_order[2]
    /\ concat_args # <<>>

\* C2: within one render the `done` values passed to the progress reporter
\* are non-decreasing.
C2_DoneNonDecreasing ==
    \A j \in 1..(Len(reports) - 1) : reports[j].done <= reports[j + 1].done

\* C3: in a render that completes successfully exactly one progress report
\* has done = total, and it is the last one emitted.
C3_DoneEqualsTotalOnceAtEnd ==
    pc = "done" =>
        /\ Cardinality({ j \in 1..Len(reports) : reports[j].done = reports[j].total }) = 1
        /\ reports[Len(reports)].done = reports[Len(reports)].total

\* C4: every progress report carries the same total S + F * (2 * S + 1),
\* S the number of scenes and F the number of formats, and no report has
\* done > total.
C4_TotalFixedAndBounding ==
    \A j \in 1..Len(reports) :
        /\ reports[j].total = NumScenes + TotalFormats * (2 * NumScenes + 1)
        /\ reports[j].done <= reports[j].total

\* C4 witness: a finished render of two or more scenes in two or more formats.
C4_Witness ==
    /\ pc = "done"
    /\ NumScenes >= 2
    /\ TotalFormats >= 2
    /\ Len(reports) >= 2 + TotalFormats * (NumScenes + 1)

\* C5: at every moment of a format's capture stage the number of scene
\* captures in flight is at most video.parallel_scenes, 4 when it is unset.
C5_InFlightBounded ==
    Cardinality(in_flight) <=
        (IF IsSome(config.video.parallel_scenes)
         THEN Unwrap(config.video.parallel_scenes)
         ELSE 4)

\* C5 witness: the bound is reached while a scene still waits to be started.
C5_Witness ==
    /\ pc = "capture"
    /\ IsSome(config.video.parallel_scenes)
    /\ Cardinality(in_flight) = Unwrap(config.video.parallel_scenes)
    /\ in_flight # {}
    /\ next_scene < NumScenes

\* C6: narration synthesis is attempted at most once per scene; duration
\* resolution and transition resolution each run exactly once, before the
\* first format starts; every FormatOutput carries the same
\* effective_durations vector.
C6_NarrationAndResolutionOnce ==
    /\ \A a, b \in 1..Len(tts_calls) : a # b => tts_calls[a] # tts_calls[b]
    /\ passes.durations <= 1
    /\ passes.transitions <= 1
    /\ (launched # <<>> \/ pc \in {"format", "done"}) =>
          /\ passes.durations = 1
          /\ passes.transitions = 1
          /\ Len(tts_durations) = NumScenes
    /\ \A j, k \in 1..Len(results) :
          results[j].effective_durations = results[k].effective_durations

\* C6 witness: two formats returned after narration was synthesized.
C6_Witness ==
    /\ pc = "done"
    /\ Len(results) >= 2
    /\ tts_calls # <<>>

\* C7: the browser of format f is torn down before the browser of format
\* f+1 is launched; at most one is live at any time.
C7_OneSurfaceAtATime ==
    /\ Cardinality(browsers) <= 1
    /\ pc = "format" => browsers = {}
    /\ browsers \subseteq {fmt_idx}

\* C7 witness: the browser of the second format is live.
C7_Witness ==
    /\ fmt_idx = 1
    /\ browsers = {1}
    /\ Len(launched) = 2

\* C8: once a scene capture of a format has failed, no scene capture of
\* that format that had not yet started is started.
C8_NoCaptureStartedAfterFailure ==
    [][ (pc = "capture" /\ \E k \in 1..Len(scene_results) : IsErr(scene_results[k]))
            => next_scene' = next_scene ]_vars

\* C9: when a fatal error occurs while rendering format k, render_project
\* returns that error, performs no concatenation for format k, starts no
\* later format and leaves the outputs of formats 0..k-1 unchanged.
C9_FatalErrorStopsFormat ==
    FailedInFormat =>
        LET k == Unwrap(raised).fmt_idx
        IN  /\ pc = "failed"
            /\ k \notin concat_done
            /\ \A j \in 1..Len(launched) : launched[j] <= k
            /\ Len(results) = k
            /\ \A j \in 1..k : outputs[results[j].output_path] = written[j]

\* C10: every fatal capture or encoding error render_project returns
\* identifies, in the error value, the failing scene and the format.
C10_ErrorLocalizesFailure ==
    (ReturnedErr /\ Unwrap(raised).stage = "capture") =>
        /\ ErrorSceneIndex(Unwrap(result).err) = Unwrap(raised).scene
        /\ ErrorFormatName(Unwrap(result).err) = SomeOpt(formats[Unwrap(raised).fmt_idx + 1])


\* C11: a narration synthesis failure for a scene (or an unavailable engine)
\* never makes the render fail: the scene gets no narration audio, its Auto
\* duration resolves to the configured fallback, and every other scene is
\* still synthesized and rendered.
C11_NarrationFailureNonFatal ==
    /\ ReturnedErr => Unwrap(raised).stage \notin {"create_engine", "tts"}
    /\ passes.durations = 1 =>
          /\ Len(audio_paths) = NumScenes
          /\ \A i \in 0..(NumScenes - 1) :
                /\ IsSome(audio_paths[i + 1]) <=> IsSome(tts_durations[i + 1])
                /\ (~scenes[i + 1].script_empty /\ Unwrap(tts_engine))
                      => \E k \in 1..Len(tts_calls) : tts_calls[k] = i
                /\ (audio_paths[i + 1] = NoneOpt /\ scenes[i + 1].duration = Auto)
                      => effective_durations[i + 1] = config.voice.auto_fallback_duration
    /\ pc = "collect" => Len(scene_results) = NumScenes

\* C11 witness: a finished render in which the synthesis of an Auto scene
\* failed and another scene got its narration.
C11_Witness ==
    /\ pc = "done"
    /\ results # <<>>
    /\ \E i, j \in 0..(NumScenes - 1) :
          /\ \E k \in 1..Len(tts_calls) : tts_calls[k] = i
          /\ audio_paths[i + 1] = NoneOpt
          /\ scenes[i + 1].duration = Auto
          /\ IsSome(audio_paths[j + 1])

\* C12: a failure while writing the subtitle file or while burning subtitles
\* into the video does not fail the render: the FormatOutput is still
\* returned and the video file still exists at output_path.
C12_SubtitleFailureNonFatal ==
    /\ ReturnedErr => Unwrap(raised).stage \notin {"subtitles", "burn_in"}
    /\ \A k \in 1..Len(results) : outputs[results[k].output_path] # NoFile


\* ---------------------------------------------------------------------------
\* One call of capture_scene_frames (render/browser.rs), statement by
\* statement.  The render variables stay idle.
\* ---------------------------------------------------------------------------

MaxHalfSeconds == 3
MaxFps == 2

total_frames_for_durationMutant(duration_ms, fps) ==
    (duration_ms * fps) \div 1000

\* Scene::total_frames_for_duration: (duration_secs * fps).ceil() as u32, the
\* duration in milliseconds.
total_frames_for_duration(duration_ms, fps) ==
    (duration_ms * fps + 999) \div 1000

CaptureInputs ==
    [effective_duration : {k * 500 : k \in 0..MaxHalfSeconds},
     fps : 1..MaxFps,
     is_static : BOOLEAN,
     audio_delay_secs : {k * 500 : k \in 0..MaxHalfSeconds},
     content_padding_after : {k * 500 : k \in 0..MaxHalfSeconds}]

total_frames == total_frames_for_duration(c_in.effective_duration, c_in.fps)

\* The scene video an FFmpeg process leaves at output_path when it exits with
\* success after reading `n` frames; `complete` says it is the whole scene.
SceneVideo(n, complete) == [kind |-> "scene", frames |-> n, complete |-> complete]

InitCapture ==
    /\ RenderIdle
    /\ PureIdle
    /\ EncoderIdle
    /\ c_pc = "new_page"
    /\ c_in \in CaptureInputs
    /\ page = "none"
    /\ signals = <<>>
    /\ encoder = NoEncoder
    /\ frame = 0
    /\ scene_file = NoFile
    /\ c_ret = NoneOpt

\* `?` on an Err: the function returns it.  The locals are dropped: a
\* chromiumoxide Page dropped without close() leaves its tab open, and a
\* SceneEncoder has no Drop impl, so dropping it closes the child's stdin and
\* leaves the process running.
DropEncoder(enc) ==
    IF enc.state = "running" THEN [enc EXCEPT !.state = "orphaned"] ELSE enc

CaptureFail(e) ==
    /\ c_ret' = SomeOpt(Err(e))
    /\ c_pc' = "returned"
    /\ encoder' = DropEncoder(encoder)
    /\ UNCHANGED <<c_in, signals, page, frame, scene_file>>

CaptureStep(next) ==
    /\ c_pc' = next
    /\ UNCHANGED <<c_in, signals, page, encoder, frame, scene_file, c_ret>>

\* browser.new_page("about:blank")
NewPage ==
    /\ c_pc = "new_page"
    /\ \/ /\ page' = "open"
          /\ c_pc' = "viewport"
          /\ UNCHANGED <<c_in, signals, encoder, frame, scene_file, c_ret>>
       \/ CaptureFail(VidgenError("Browser", "Failed to create page"))
    /\ UNCHANGED <<renderVars, pureVars, encoderVars>>

\* page.execute(SetDeviceMetricsOverrideParams ...)
SetViewport ==
    /\ c_pc = "viewport"
    /\ \/ CaptureStep("render_frame0")
       \/ CaptureFail(VidgenError("Browser", "Failed to set viewport"))
    /\ UNCHANGED <<renderVars, pureVars, encoderVars>>

\* html_frame0 = render_scene_html(.., 0, total_frames)?; is_static
RenderFrame0 ==
    /\ c_pc = "render_frame0"
    /\ \/ CaptureStep(IF c_in.is_static THEN "static_content" ELSE "encoder_new")
       \/ CaptureFail(VidgenError("TemplateRender", "frame 0"))
    /\ UNCHANGED <<renderVars, pureVars, encoderVars>>

StaticSetContent ==
    /\ c_pc = "static_content"
    /\ \/ CaptureStep("static_screenshot")
       \/ CaptureFail(VidgenError("Browser", "Failed to set page content"))
    /\ UNCHANGED <<renderVars, pureVars, encoderVars>>

StaticScreenshot ==
    /\ c_pc = "static_screenshot"
    /\ \/ CaptureStep("encode_static")
       \/ CaptureFail(VidgenError("Browser", "Screenshot failed"))
    /\ UNCHANGED <<renderVars, pureVars, encoderVars>>

\* SceneEncoder::encode_static(...)?: one FFmpeg run that loops the single
\* screenshot for the scene's duration; it has returned before the function
\* goes on.
EncodeStatic ==
    /\ c_pc = "encode_static"
    /\ \/ /\ scene_file' = SceneVideo(1, TRUE)
          /\ c_pc' = "static_close"
          /\ UNCHANGED <<c_in, signals, page, encoder, frame, c_ret>>
       \/ CaptureFail(VidgenError("Ffmpeg", "encode_static"))
    /\ UNCHANGED <<renderVars, pureVars, encoderVars>>

\* let _ = page.close().await; return Ok(output)
StaticClose ==
    /\ c_pc = "static_close"
    /\ page' = "closed"
    /\ c_ret' = SomeOpt(Ok("output_path"))
    /\ c_pc' = "returned"
    /\ UNCHANGED <<c_in, signals, encoder, frame, scene_file>>
    /\ UNCHANGED <<renderVars, pureVars, encoderVars>>

\* SceneEncoder::new(...)?
EncoderNew ==
    /\ c_pc = "encoder_new"
    /\ \/ /\ encoder' = [state |-> "running", frames |-> <<>>]
          /\ c_pc' = "loop_head"
          /\ UNCHANGED <<c_in, signals, page, frame, scene_file, c_ret>>
       \/ CaptureFail(VidgenError("Ffmpeg", "Failed to spawn FFmpeg"))
    /\ UNCHANGED <<renderVars, pureVars, encoderVars>>

\* for frame in 0..total_frames
LoopHead ==
    /\ c_pc = "loop_head"
    /\ CaptureStep(IF frame < total_frames THEN "render_html" ELSE "finish")
    /\ UNCHANGED <<renderVars, pureVars, encoderVars>>

\* frame 0 reuses html_frame0; later frames call render_scene_html(..)?
RenderHtml ==
    /\ c_pc = "render_html"
    /\ \/ CaptureStep("set_content")
       \/ /\ frame > 0
          /\ CaptureFail(VidgenError("TemplateRender", "frame"))
    /\ UNCHANGED <<renderVars, pureVars, encoderVars>>

SetContent ==
    /\ c_pc = "set_content"
    /\ \/ CaptureStep("evaluate")
       \/ CaptureFail(VidgenError("Browser", "Failed to set page content"))
    /\ UNCHANGED <<renderVars, pureVars, encoderVars>>

\* A quotient of two numbers, kept as the pair.
Frac(num, den) == [num |-> num, den |-> den]

\* f64::clamp(0.0, 1.0) of a quotient with a positive denominator.
clamp(f) ==
    IF f.num < 0 THEN Frac(0, 1)
    ELSE IF f.num > f.den THEN Frac(1, 1)
    ELSE f

content_progressMutant(fr, total, fps, duration_ms, audio_delay_ms, padding_after_ms) ==
    LET content_start_frame == audio_delay_ms * fps
        content_end_frame == (duration_ms - padding_after_ms) * fps
        content_range == content_end_frame - content_start_frame
    IN  IF content_range # 0
        THEN clamp(Frac(fr * 1000 - content_start_frame, content_range))
        ELSE Frac(fr, total)

\* content_progress of frame fr; the frame boundaries are kept times 1000
\* (durations are in milliseconds).
content_progress(fr, total, fps, duration_ms, audio_delay_ms, padding_after_ms) ==
    LET content_start_frame == audio_delay_ms * fps
        content_end_frame == (duration_ms - padding_after_ms) * fps
        content_range == content_end_frame - content_start_frame
    IN  IF content_range > 0
        THEN clamp(Frac(fr * 1000 - content_start_frame, content_range))
        ELSE Frac(fr, total)

\* page.evaluate(js): --frame, --total-frames, --progress, --content-progress
Evaluate ==
    /\ c_pc = "evaluate"
    /\ \/ /\ signals' = [frame |-> frame, total_frames |-> total_frames,
                          progress |-> Frac(frame, total_frames),
                          content_progress |->
                              content_progress(frame, total_frames, c_in.fps,
                                               c_in.effective_duration,
                                               c_in.audio_delay_secs,
                                               c_in.content_padding_after)]
          /\ c_pc' = "screenshot"
          /\ UNCHANGED <<c_in, page, encoder, frame, scene_file, c_ret>>
       \/ CaptureFail(VidgenError("Browser", "JS injection failed"))
    /\ UNCHANGED <<renderVars, pureVars, encoderVars>>

Screenshot ==
    /\ c_pc = "screenshot"
    /\ \/ CaptureStep("write_frame")
       \/ CaptureFail(VidgenError("Browser", "Screenshot failed"))
    /\ UNCHANGED <<renderVars, pureVars, encoderVars>>

\* encoder.write_frame(&screenshot)?
WriteFrame ==
    /\ c_pc = "write_frame"
    /\ \/ /\ encoder' = [encoder EXCEPT !.frames = Append(@, frame)]
          /\ frame' = frame + 1
          /\ c_pc' = "loop_head"
          /\ UNCHANGED <<c_in, signals, page, scene_file, c_ret>>
       \/ CaptureFail(VidgenError("Ffmpeg", "Failed to write frame to FFmpeg"))
    /\ UNCHANGED <<renderVars, pureVars, encoderVars>>

\* encoder.finish()?: stdin closed, the process waited for.
EncoderFinish ==
    /\ c_pc = "finish"
    /\ \/ /\ encoder' = [encoder EXCEPT !.state = "finished"]
          /\ scene_file' = SceneVideo(Len(encoder.frames), TRUE)
          /\ c_pc' = "close"
          /\ UNCHANGED <<c_in, signals, page, frame, c_ret>>
       \/ /\ encoder' = [encoder EXCEPT !.state = "failed"]
          /\ c_ret' = SomeOpt(Err(VidgenError("Ffmpeg", "FFmpeg encoding failed")))
          /\ c_pc' = "returned"
          /\ UNCHANGED <<c_in, signals, page, frame, scene_file>>
    /\ UNCHANGED <<renderVars, pureVars, encoderVars>>

\* let _ = page.close().await; Ok(output)
ClosePage ==
    /\ c_pc = "close"
    /\ page' = "closed"
    /\ c_ret' = SomeOpt(Ok("output_path"))
    /\ c_pc' = "returned"
    /\ UNCHANGED <<c_in, signals, encoder, frame, scene_file>>
    /\ UNCHANGED <<renderVars, pureVars, encoderVars>>

\* An FFmpeg process whose SceneEncoder was dropped: its stdin is at end of
\* file, so it encodes what it has read and exits, with the container
\* finalized at output_path (when it read at least one frame) or with an
\* error and no usable file.
OrphanEncoderExits ==
    /\ encoder.state = "orphaned"
    /\ \/ /\ Len(encoder.frames) > 0
          /\ encoder' = [encoder EXCEPT !.state = "exited_ok"]
          /\ scene_file' = SceneVideo(Len(encoder.frames), FALSE)
       \/ /\ encoder' = [encoder EXCEPT !.state = "exited_err"]
          /\ UNCHANGED scene_file
    /\ UNCHANGED <<c_pc, c_in, signals, page, frame, c_ret>>
    /\ UNCHANGED <<renderVars, pureVars, encoderVars>>

NextCapture ==
    \/ NewPage
    \/ SetViewport
    \/ RenderFrame0
    \/ StaticSetContent
    \/ StaticScreenshot
    \/ EncodeStatic
    \/ StaticClose
    \/ EncoderNew
    \/ LoopHead
    \/ RenderHtml
    \/ SetContent
    \/ Evaluate
    \/ Screenshot
    \/ WriteFrame
    \/ EncoderFinish
    \/ ClosePage
    \/ OrphanEncoderExits

SpecCapture == InitCapture /\ [][NextCapture]_vars

CaptureReturned == c_pc = "returned"

\* C13: whenever capture_scene_frames has returned, with success or with an
\* error raised at any step, the tab it opened for the scene is closed.
C13_TabClosedOnReturn ==
    (CaptureReturned /\ page # "none") => page = "closed"


CaptureReturnedErr == CaptureReturned /\ IsErr(Unwrap(c_ret))

\* C14: when capture_scene_frames returns an error raised after the scene's
\* encoder was started, no video for the scene is ever finalized at its
\* output path.
C14_NoPartialVideoOnError ==
    (CaptureReturnedErr /\ encoder.state # "none") => scene_file = NoFile


\* ---------------------------------------------------------------------------
\* One call of a pure function (SceneDuration::resolve or resolve_transition)
\* on arguments drawn from bounded sets.  The other variables stay idle.
\* ---------------------------------------------------------------------------

Millis == { k * 500 : k \in 0..MaxHalfSeconds }

SceneDurations == {Auto} \cup { Fixed(d) : d \in Millis }

OptMillis == {NoneOpt} \cup { SomeOpt(d) : d \in Millis }

ResolveCalls ==
    [fn : {"resolve"},
     duration : SceneDurations,
     tts_duration : OptMillis,
     padding_before : Millis,
     padding_after : Millis,
     fallback : Millis]

\* Names a transition field can hold: known ones, "none" and the empty name in
\* some spellings, and an unknown one.
TransitionNames == {"fade", "Fade", "zoom", "none", "NONE", "", "bogus"}

OptNames == {NoneOpt} \cup { SomeOpt(n) : n \in TransitionNames }

\* A scene-level transition_duration: unset, or a length of its own, equal to
\* or different from the project's.
OptTransitionDurations ==
    {NoneOpt, SomeOpt(2 * default_transition_duration),
     SomeOpt(3 * default_transition_duration)}

\* The project's default_transition_duration: the serde default, or a
\* configured one.
DefaultTransitionDurations == {default_transition_duration, 2 * default_transition_duration}

VideoConfig(default_transition, default_duration) ==
    [formats |-> NoneOpt, parallel_scenes |-> NoneOpt,
     default_transition |-> default_transition,
     default_transition_duration |-> default_duration]

ResolveTransitionCalls ==
    { [fn |-> "resolve_transition",
       scene_out |-> Scene(Auto, TRUE, NoneOpt, t_out, d_out),
       scene_in |-> Scene(Auto, TRUE, t_in, NoneOpt, d_in),
       video_config |-> VideoConfig(t_default, d_default)] :
      t_out \in OptNames, t_in \in OptNames, t_default \in OptNames,
      d_out \in OptTransitionDurations, d_in \in OptTransitionDurations,
      d_default \in DefaultTransitionDurations }

\* ---- the cross-fade graph of concat_scenes_with_transitions

MaxXfadeScenes == 3

\* The 0.001 s blend of a boundary without a transition, in milliseconds.
instant_cut == 1

\* TransitionType::ffmpeg_name
ffmpeg_name(transition_type) ==
    CASE transition_type = "Fade" -> "fade"
      [] transition_type = "SlideLeft" -> "slideleft"
      [] transition_type = "SlideRight" -> "slideright"
      [] transition_type = "Zoom" -> "smoothup"
      [] transition_type = "Wipe" -> "wipeleft"
      [] transition_type = "None" -> "fade"

\* (trans_name, trans_dur) of a boundary
trans_name(trans) == IF IsSome(trans) THEN ffmpeg_name(Unwrap(trans).transition_type) ELSE "fade"
trans_dur(trans) == IF IsSome(trans) THEN Unwrap(trans).duration ELSE instant_cut

Max(a, b) == IF a >= b THEN a ELSE b

RECURSIVE offsetMutant(_, _, _)
offsetMutant(scene_durations, xf_transitions, i) ==
    IF i = 0 THEN scene_durations[1] - trans_dur(xf_transitions[1])
    ELSE Max(offsetMutant(scene_durations, xf_transitions, i - 1), 0)
            + scene_durations[i + 1] - trans_dur(xf_transitions[i + 1])

\* The variable `offset` after the loop body of boundary i (0-based).
RECURSIVE offset(_, _, _)
offset(scene_durations, xf_transitions, i) ==
    IF i = 0 THEN scene_durations[1] - trans_dur(xf_transitions[1])
    ELSE offset(scene_durations, xf_transitions, i - 1)
            + scene_durations[i + 1] - trans_dur(xf_transitions[i + 1])

\* The xfade filter pushed for boundary i of n scenes.
xfade_part(scene_durations, xf_transitions, n, i) ==
    [filter |-> "xfade",
     input_a |-> IF i = 0 THEN <<0, "v">> ELSE <<"v", i>>,
     input_b |-> <<i + 1, "v">>,
     transition |-> trans_name(xf_transitions[i + 1]),
     duration |-> trans_dur(xf_transitions[i + 1]),
     offset |-> Max(offset(scene_durations, xf_transitions, i), 0),
     output |-> IF i = n - 2 THEN "vout" ELSE <<"v", i + 1>>]

any_audioMutant(has_audio) == \A k \in 1..Len(has_audio) : has_audio[k]
any_audio(has_audio) == \E k \in 1..Len(has_audio) : has_audio[k]

\* The track [sa{i}] of scene i: its own audio normalized, or silence trimmed
\* to the scene's duration.
audio_track(has_audio, scene_durations, i) ==
    IF has_audio[i + 1]
    THEN [filter |-> "aformat", input |-> <<i, "a">>, output |-> <<"sa", i>>]
    ELSE [filter |-> "anullsrc_atrim", atrim |-> scene_durations[i + 1],
          output |-> <<"sa", i>>]

\* The acrossfade filter pushed for boundary i of n scenes.
acrossfade_part(xf_transitions, n, i) ==
    [filter |-> "acrossfade",
     input_a |-> IF i = 0 THEN <<"sa", 0>> ELSE <<"a", i>>,
     input_b |-> <<"sa", i + 1>>,
     d |-> trans_dur(xf_transitions[i + 1]),
     output |-> IF i = n - 2 THEN "aout" ELSE <<"a", i + 1>>]

\* Option::take(n) over `transitions`
TakeBoundaries(xf_transitions, k) == IF Len(xf_transitions) < k THEN Len(xf_transitions) ELSE k

\* The filter parts and the -map arguments of the FFmpeg command of the
\* cross-fade path.
xfade_command(scene_durations, xf_transitions, has_audio) ==
    LET n == Len(scene_durations)
        video == [k \in 1..(n - 1) |-> xfade_part(scene_durations, xf_transitions, n, k - 1)]
        tracks == [k \in 1..n |-> audio_track(has_audio, scene_durations, k - 1)]
        fades == [k \in 1..TakeBoundaries(xf_transitions, n - 1) |->
                     acrossfade_part(xf_transitions, n, k - 1)]
    IN  [filter_parts |-> IF any_audio(has_audio) THEN video \o tracks \o fades ELSE video,
         maps |-> IF any_audio(has_audio) THEN <<"vout", "aout">> ELSE <<"vout">>]

\* Scene lengths and boundary transitions of the calls: a transition may be
\* longer than the scene before it.
XfadeDurations == {default_transition_duration, 2 * default_transition_duration}

XfadeTransitions ==
    {NoneOpt,
     SomeOpt([transition_type |-> "Fade", duration |-> default_transition_duration]),
     SomeOpt([transition_type |-> "Zoom", duration |-> 3 * default_transition_duration])}

\* Calls that reach the cross-fade path: two or more scenes, a transition on
\* some boundary.
XfadeCalls ==
    UNION { { [fn |-> "xfade_command", scene_durations |-> ds, transitions |-> ts,
               has_audio |-> ha] :
              ds \in [1..n -> XfadeDurations],
              ts \in { t \in [1..(n - 1) -> XfadeTransitions] : HasTransitions(t) },
              ha \in [1..n -> BOOLEAN] } :
            n \in 2..MaxXfadeScenes }

InitPure ==
    /\ RenderIdle
    /\ CaptureCallIdle
    /\ EncoderIdle
    /\ call \in ResolveCalls \cup ResolveTransitionCalls \cup XfadeCalls
    /\ ret = NoneOpt

CallResolve ==
    /\ call.fn = "resolve"
    /\ ret = NoneOpt
    /\ ret' = SomeOpt(resolve(call.duration, call.tts_duration, call.padding_before,
                              call.padding_after, call.fallback))
    /\ UNCHANGED <<call, renderVars, captureCallVars, encoderVars>>

CallResolveTransition ==
    /\ call.fn = "resolve_transition"
    /\ ret = NoneOpt
    /\ ret' = SomeOpt(resolve_transition(call.scene_out, call.scene_in, call.video_config))
    /\ UNCHANGED <<call, renderVars, captureCallVars, encoderVars>>

CallXfadeCommand ==
    /\ call.fn = "xfade_command"
    /\ ret = NoneOpt
    /\ ret' = SomeOpt(xfade_command(call.scene_durations, call.transitions, call.has_audio))
    /\ UNCHANGED <<call, renderVars, captureCallVars, encoderVars>>

NextPure ==
    \/ CallResolve
    \/ CallResolveTransition
    \/ CallXfadeCommand

SpecPure == InitPure /\ [][NextPure]_vars

Resolved == call # <<>> /\ call.fn = "resolve" /\ IsSome(ret)

\* C17: SceneDuration::resolve returns d for Fixed(d) with or without
\* narration, narration + padding_before + padding_after for Auto with
\* narration, and the fallback for Auto without narration.
C17_ResolveDuration ==
    Resolved =>
        /\ call.duration.tag = "Fixed" => Unwrap(ret) = call.duration.d
        /\ (call.duration = Auto /\ IsSome(call.tts_duration))
              => Unwrap(ret) = Unwrap(call.tts_duration) + call.padding_before
                                   + call.padding_after
        /\ (call.duration = Auto /\ call.tts_duration = NoneOpt)
              => Unwrap(ret) = call.fallback

C17_Witness ==
    /\ Resolved
    /\ call.duration.tag = "Fixed"
    /\ IsSome(call.tts_duration)
    /\ Unwrap(call.tts_duration) + call.padding_before + call.padding_after
          # call.duration.d
    /\ Unwrap(ret) = call.duration.d

TransitionResolved == call # <<>> /\ call.fn = "resolve_transition" /\ IsSome(ret)

t_out == call.scene_out.transition_out
t_in == call.scene_in.transition_in
t_default == call.video_config.default_transition

\* The type of a resolve_transition result, "None" for no transition.
ResolvedType == IF IsSome(Unwrap(ret)) THEN Unwrap(Unwrap(ret)).transition_type ELSE "None"

\* C18: the transition type comes from the outgoing scene's transition_out
\* when set, else from the incoming scene's transition_in when set, else from
\* the project default; with none of the three set the result is None.
C18_TransitionPrecedence ==
    TransitionResolved =>
        /\ IsSome(t_out) => ResolvedType = TransitionType_from_str(Unwrap(t_out))
        /\ (t_out = NoneOpt /\ IsSome(t_in))
              => ResolvedType = TransitionType_from_str(Unwrap(t_in))
        /\ (t_out = NoneOpt /\ t_in = NoneOpt /\ IsSome(t_default))
              => ResolvedType = TransitionType_from_str(Unwrap(t_default))
        /\ (t_out = NoneOpt /\ t_in = NoneOpt /\ t_default = NoneOpt)
              => Unwrap(ret) = NoneOpt

C18_Witness ==
    /\ TransitionResolved
    /\ t_out = SomeOpt("zoom")
    /\ t_in = SomeOpt("fade")
    /\ t_default = SomeOpt("bogus")
    /\ ResolvedType = "Zoom"

\* C19: with the outgoing scene's transition_out explicitly "none" the result
\* is None for every transition_in and every project default.
C19_OutgoingNoneDisables ==
    (TransitionResolved /\ t_out = SomeOpt("none")) => Unwrap(ret) = NoneOpt

C19_Witness ==
    /\ TransitionResolved
    /\ t_out = SomeOpt("none")
    /\ t_in = SomeOpt("zoom")
    /\ t_default = SomeOpt("fade")
    /\ Unwrap(ret) = NoneOpt

\* The explicit "none" and the empty name.
IsNoneName(t) == IsSome(t) /\ Unwrap(t) \in {"none", ""}

\* C20 as stated: an explicit "none" or empty name at any position of the
\* chain makes the result None, whatever the other positions declare.
C20_NoneAnywhereDisables ==
    (TransitionResolved /\ (IsNoneName(t_out) \/ IsNoneName(t_in) \/ IsNoneName(t_default)))
        => Unwrap(ret) = NoneOpt

\* C20 amended: an explicit "none" or empty name disables the transition
\* when it stands at the first set position of the chain, whatever the
\* lower-priority positions declare; below a set position it is not looked at.
C20_NoneAtSelectedPositionDisables ==
    TransitionResolved =>
        /\ (\/ IsNoneName(t_out)
            \/ t_out = NoneOpt /\ IsNoneName(t_in)
            \/ t_out = NoneOpt /\ t_in = NoneOpt /\ IsNoneName(t_default))
              => Unwrap(ret) = NoneOpt
        /\ (IsSome(t_out) /\ ~IsNoneName(t_out) /\ to_lowercase(Unwrap(t_out)) # "none")
              => IsSome(Unwrap(ret))

C20_Witness ==
    /\ TransitionResolved
    /\ t_out = NoneOpt
    /\ t_in = SomeOpt("")
    /\ t_default = SomeOpt("fade")
    /\ Unwrap(ret) = NoneOpt


\* ---------------------------------------------------------------------------
\* One SceneEncoder (render/encoder.rs): the thread that calls write_frame
\* and finish, the FFmpeg child, the thread that reads the child's stderr,
\* and the two OS pipes between them.  The other variables stay idle.
\* ---------------------------------------------------------------------------

MaxFrames == 2
ChunksPerFrame == 2
PipeCap == 1
MaxDiag == 3

\* What the child can print: characters of a line, and the line terminator.
DiagChars == {"e", "\n"}

RECURSIVE lines_from(_, _, _)
lines_from(s, i, cur) ==
    IF i > Len(s) THEN (IF cur = <<>> THEN <<>> ELSE <<cur>>)
    ELSE IF s[i] = "\n" THEN <<cur>> \o lines_from(s, i + 1, <<>>)
    ELSE lines_from(s, i + 1, Append(cur, s[i]))

\* str::lines: the lines of s without their terminators; a final empty
\* line is not a line.
lines(s) == lines_from(s, 1, <<>>)

lastMutant(seq) == IF seq = <<>> THEN NoneOpt ELSE SomeOpt(seq[1])

\* Iterator::last
last(seq) == IF seq = <<>> THEN NoneOpt ELSE SomeOpt(seq[Len(seq)])

unknown_error == <<"unknown error">>

InitEncoder ==
    /\ RenderIdle
    /\ CaptureCallIdle
    /\ PureIdle
    /\ \E n \in 0..MaxFrames :
          writer = [pc |-> "idle", frames_left |-> n, chunks_left |-> 0,
                    wait_result |-> NoneOpt, trace |-> <<>>, ret |-> NoneOpt]
    /\ stdin_pipe = [len |-> 0, open |-> TRUE]
    /\ \E u \in BOOLEAN :
          ffmpeg = [pc |-> "running", pending |-> NoneOpt, status |-> NoneOpt,
                    consumed |-> 0, emitted |-> <<>>, utf8 |-> u]
    /\ stderr_pipe = <<>>
    /\ stderr_thread = [pc |-> "reading", buf |-> <<>>]
    /\ unblocked = FALSE

EncoderSideIdle == UNCHANGED <<renderVars, captureCallVars, pureVars>>

\* write_frame: stdin.as_mut() is Some until finish, then write_all starts.
CallWriteFrame ==
    /\ writer.pc = "idle"
    /\ writer.frames_left > 0
    /\ writer' = [writer EXCEPT !.pc = "writing", !.chunks_left = ChunksPerFrame]
    /\ UNCHANGED <<stdin_pipe, ffmpeg, stderr_pipe, stderr_thread, unblocked>>
    /\ EncoderSideIdle

\* One write of write_all: it fails when the child has exited (broken pipe),
\* and the caller then drops the encoder; it blocks while the pipe is full;
\* write_frame returns Ok after the frame's last chunk.
WriteChunk ==
    /\ writer.pc = "writing"
    /\ \/ /\ ffmpeg.pc = "exited"
          /\ writer' = [writer EXCEPT !.pc = "returned",
                           !.ret = SomeOpt(Err(VidgenError("Ffmpeg", "Failed to write frame")))]
          /\ stdin_pipe' = [stdin_pipe EXCEPT !.open = FALSE]
       \/ /\ ffmpeg.pc # "exited"
          /\ stdin_pipe.len < PipeCap
          /\ stdin_pipe' = [stdin_pipe EXCEPT !.len = @ + 1]
          /\ writer' = IF writer.chunks_left = 1
                       THEN [writer EXCEPT !.pc = "idle", !.chunks_left = 0,
                                           !.frames_left = @ - 1]
                       ELSE [writer EXCEPT !.chunks_left = @ - 1]
    /\ UNCHANGED <<ffmpeg, stderr_pipe, stderr_thread, unblocked>>
    /\ EncoderSideIdle

\* finish: drop(self.child.stdin.take())
FinishCloseStdin ==
    /\ writer.pc = "idle"
    /\ writer.frames_left = 0
    /\ stdin_pipe' = [stdin_pipe EXCEPT !.open = FALSE]
    /\ writer' = [writer EXCEPT !.pc = "wait", !.trace = Append(@, "close_stdin")]
    /\ UNCHANGED <<ffmpeg, stderr_pipe, stderr_thread, unblocked>>
    /\ EncoderSideIdle

\* finish: self.child.wait()?, which blocks until the child has exited or
\* fails.
FinishWait ==
    /\ writer.pc = "wait"
    /\ \/ /\ ffmpeg.pc = "exited"
          /\ writer' = [writer EXCEPT !.pc = "join", !.wait_result = SomeOpt("ok"),
                                      !.trace = Append(@, "wait")]
       \/ writer' = [writer EXCEPT !.pc = "returned", !.wait_result = SomeOpt("failed"),
                                   !.trace = Append(@, "wait"),
                                   !.ret = SomeOpt(Err(VidgenError("Ffmpeg", "FFmpeg wait failed")))]
    /\ UNCHANGED <<stdin_pipe, ffmpeg, stderr_pipe, stderr_thread, unblocked>>
    /\ EncoderSideIdle

\* finish: join the stderr thread, then decide on the exit status.
FinishJoin ==
    /\ writer.pc = "join"
    /\ stderr_thread.pc = "done"
    /\ LET stderr_output == stderr_thread.buf
           last_line == UnwrapOr(last(lines(stderr_output)), unknown_error)
       IN  writer' = [writer EXCEPT
               !.pc = "returned",
               !.trace = Append(@, "join"),
               !.ret = IF Unwrap(ffmpeg.status) # 0
                       THEN SomeOpt(Err(VidgenError("Ffmpeg",
                                [what |-> "FFmpeg encoding failed",
                                 status |-> Unwrap(ffmpeg.status),
                                 last_line |-> last_line])))
                       ELSE SomeOpt(Ok("output_path"))]
    /\ UNCHANGED <<stdin_pipe, ffmpeg, stderr_pipe, stderr_thread, unblocked>>
    /\ EncoderSideIdle

\* The child reads input.
FfmpegRead ==
    /\ ffmpeg.pc = "running"
    /\ stdin_pipe.len > 0
    /\ stdin_pipe' = [stdin_pipe EXCEPT !.len = @ - 1]
    /\ ffmpeg' = [ffmpeg EXCEPT !.consumed = @ + 1]
    /\ UNCHANGED <<writer, stderr_pipe, stderr_thread, unblocked>>
    /\ EncoderSideIdle

\* The child starts a write to its stderr; until the write is done it does
\* nothing else.
FfmpegStartEmit ==
    /\ ffmpeg.pc = "running"
    /\ Len(ffmpeg.emitted) < MaxDiag
    /\ \E c \in DiagChars :
          ffmpeg' = [ffmpeg EXCEPT !.pc = "emitting", !.pending = SomeOpt(c)]
    /\ UNCHANGED <<writer, stdin_pipe, stderr_pipe, stderr_thread, unblocked>>
    /\ EncoderSideIdle

\* The write to stderr goes through once the pipe has room.
FfmpegEmit ==
    /\ ffmpeg.pc = "emitting"
    /\ Len(stderr_pipe) < PipeCap
    /\ stderr_pipe' = Append(stderr_pipe, Unwrap(ffmpeg.pending))
    /\ ffmpeg' = [ffmpeg EXCEPT !.pc = "running", !.pending = NoneOpt,
                                !.emitted = Append(@, Unwrap(ffmpeg.pending))]
    /\ UNCHANGED <<writer, stdin_pipe, stderr_thread, unblocked>>
    /\ EncoderSideIdle

\* End of input: the child finalizes the file and exits with success.
FfmpegFinalize ==
    /\ ffmpeg.pc = "running"
    /\ ~stdin_pipe.open
    /\ stdin_pipe.len = 0
    /\ ffmpeg' = [ffmpeg EXCEPT !.pc = "exited", !.status = SomeOpt(0)]
    /\ UNCHANGED <<writer, stdin_pipe, stderr_pipe, stderr_thread, unblocked>>
    /\ EncoderSideIdle

\* The child gives up with a non-zero status; unread input is lost.
FfmpegFail ==
    /\ ffmpeg.pc = "running"
    /\ ffmpeg' = [ffmpeg EXCEPT !.pc = "exited", !.status = SomeOpt(1)]
    /\ stdin_pipe' = [stdin_pipe EXCEPT !.len = 0]
    /\ UNCHANGED <<writer, stderr_pipe, stderr_thread, unblocked>>
    /\ EncoderSideIdle

DrainReadMutant ==
    /\ stderr_thread.pc = "reading"
    /\ stderr_pipe # <<>>
    /\ ffmpeg.pc = "exited"
    /\ stderr_thread' = [stderr_thread EXCEPT !.buf = Append(@, Head(stderr_pipe))]
    /\ stderr_pipe' = Tail(stderr_pipe)
    /\ UNCHANGED <<writer, stdin_pipe, ffmpeg, unblocked>>
    /\ EncoderSideIdle

\* The stderr thread inside read_to_string: it takes what the pipe holds.
DrainRead ==
    /\ stderr_thread.pc = "reading"
    /\ stderr_pipe # <<>>
    /\ stderr_thread' = [stderr_thread EXCEPT !.buf = Append(@, Head(stderr_pipe))]
    /\ stderr_pipe' = Tail(stderr_pipe)
    /\ unblocked' = (\/ unblocked
                     \/ /\ Len(stderr_pipe) = PipeCap
                        /\ ffmpeg.pc = "emitting"
                        /\ writer.pc = "writing"
                        /\ stdin_pipe.len = PipeCap)
    /\ UNCHANGED <<writer, stdin_pipe, ffmpeg>>
    /\ EncoderSideIdle

\* End of stream: read_to_string returns; on output that is not UTF-8 it
\* leaves the String empty.
DrainEof ==
    /\ stderr_thread.pc = "reading"
    /\ stderr_pipe = <<>>
    /\ ffmpeg.pc = "exited"
    /\ stderr_thread' = [pc |-> "done",
                         buf |-> IF ffmpeg.utf8 THEN stderr_thread.buf ELSE <<>>]
    /\ UNCHANGED <<writer, stdin_pipe, ffmpeg, stderr_pipe, unblocked>>
    /\ EncoderSideIdle

NextEncoder ==
    \/ CallWriteFrame
    \/ WriteChunk
    \/ FinishCloseStdin
    \/ FinishWait
    \/ FinishJoin
    \/ FfmpegRead
    \/ FfmpegStartEmit
    \/ FfmpegEmit
    \/ FfmpegFinalize
    \/ FfmpegFail
    \/ DrainRead
    \/ DrainEof

SpecEncoder == InitEncoder /\ [][NextEncoder]_vars

\* The threads and the child are scheduled: the writer thread goes on when
\* it can, the stderr thread goes on when it can, and the child keeps
\* consuming input and finishing its writes.
SpecEncoderFair ==
    /\ SpecEncoder
    /\ WF_vars(CallWriteFrame \/ WriteChunk \/ FinishCloseStdin \/ FinishWait \/ FinishJoin)
    /\ WF_vars(FfmpegRead \/ FfmpegEmit \/ FfmpegFinalize)
    /\ WF_vars(DrainRead \/ DrainEof)


FinishReturned == writer # <<>> /\ writer.pc = "returned" /\ writer.trace # <<>>

\* What the stderr thread hands to finish: everything the child printed, or
\* nothing when that was not UTF-8.
Captured == IF ffmpeg.utf8 THEN ffmpeg.emitted ELSE <<>>

WithoutFinalNewline(s) ==
    IF s # <<>> /\ s[Len(s)] = "\n" THEN SubSeq(s, 1, Len(s) - 1) ELSE s

\* l is the text after the last line terminator of s, a final terminator
\* not counted.
IsLastLineOf(l, s) ==
    LET t == WithoutFinalNewline(s)
    IN  /\ s # <<>>
        /\ Len(l) <= Len(t)
        /\ \A i \in 1..Len(l) : l[i] # "\n" /\ l[i] = t[Len(t) - Len(l) + i]
        /\ Len(l) < Len(t) => t[Len(t) - Len(l)] = "\n"

\* C16: finish closes stdin, then waits, then collects the diagnostics; it
\* returns an error exactly when the wait failed or the exit status is not
\* zero; on a non-zero status the message carries the last line of the
\* captured diagnostics, "unknown error" when there are none; otherwise it
\* returns the output path.
C16_FinishContract ==
    writer # <<>> =>
        /\ \E n \in 0..3 : writer.trace = SubSeq(<<"close_stdin", "wait", "join">>, 1, n)
        /\ writer.pc \in {"wait", "join"} => ~stdin_pipe.open
        /\ writer.pc = "join" => ffmpeg.pc = "exited"
        /\ FinishReturned =>
              /\ IsErr(Unwrap(writer.ret))
                    <=> \/ writer.wait_result = SomeOpt("failed")
                        \/ IsSome(ffmpeg.status) /\ Unwrap(ffmpeg.status) # 0
              /\ (writer.wait_result = SomeOpt("ok") /\ Unwrap(ffmpeg.status) # 0) =>
                    LET l == Unwrap(writer.ret).err.msg.last_line
                    IN  IF Captured = <<>> THEN l = unknown_error
                        ELSE IsLastLineOf(l, Captured)
              /\ IsOk(Unwrap(writer.ret)) => Unwrap(writer.ret).val = "output_path"

C16_Witness ==
    /\ FinishReturned
    /\ writer.trace = <<"close_stdin", "wait", "join">>
    /\ Unwrap(ffmpeg.status) # 0
    /\ Captured = <<"\n", "e">>
    /\ Unwrap(writer.ret).err.msg.last_line = <<"e">>


d_out == call.scene_out.transition_duration
d_in == call.scene_in.transition_duration
d_default == call.video_config.default_transition_duration

\* C21: the duration of a resolved transition is the outgoing scene's
\* transition_duration when set, else the incoming scene's when set, else the
\* project's default_transition_duration, whichever level gave the type.
C21_TransitionDurationPrecedence ==
    (TransitionResolved /\ IsSome(Unwrap(ret))) =>
        /\ IsSome(d_out) => Unwrap(Unwrap(ret)).duration = Unwrap(d_out)
        /\ (d_out = NoneOpt /\ IsSome(d_in))
              => Unwrap(Unwrap(ret)).duration = Unwrap(d_in)
        /\ (d_out = NoneOpt /\ d_in = NoneOpt)
              => Unwrap(Unwrap(ret)).duration = d_default

\* The type comes from the project default while the duration comes from
\* the incoming scene.
C21_Witness ==
    /\ TransitionResolved
    /\ t_out = NoneOpt /\ t_in = NoneOpt /\ t_default = SomeOpt("zoom")
    /\ d_out = NoneOpt /\ d_in = SomeOpt(1000)
    /\ d_default = default_transition_duration
    /\ Unwrap(ret) = SomeOpt([transition_type |-> "Zoom", duration |-> 1000])


\* The final videos concatenation has produced so far.
ConcatenatedVideos == { p \in AllOutputPaths : outputs[p].kind = "video" }

\* C22: one scene file is copied without an encoder subprocess; two or more
\* scenes without a resolved transition go through the stream-copy
\* concatenation only; the re-encoding filter graph runs exactly when there
\* are at least two scenes and some boundary has a resolved transition.
C22_ConcatRouting ==
    \A p \in ConcatenatedVideos :
        LET v == outputs[p]
            n == Len(v.files)
            some_transition == \E k \in 1..Len(transitions) : transitions[k] # NoneOpt
        IN  /\ n = 1 => v.route = "copy"
            /\ (n >= 2 /\ ~some_transition) => v.route = "concat_demuxer"
            /\ v.route = "xfade" <=> (n >= 2 /\ some_transition)

C22_Witness ==
    \E p \in ConcatenatedVideos :
        /\ Len(outputs[p].files) = 2
        /\ transitions = <<NoneOpt>>
        /\ outputs[p].route = "concat_demuxer"


\* The project declares no named format: the formats table is absent, or
\* present and empty.
DeclaresNoFormats ==
    \/ config.video.formats = NoneOpt
    \/ config.video.formats = SomeOpt(<<>>)

\* C23: a project with zero named formats is rendered in exactly one
\* implicit format named "default" and returns exactly one FormatOutput.
C23_ImplicitDefaultFormat ==
    DeclaresNoFormats =>
        /\ pc \notin {"idle", "setup"} => formats = <<"default">>
        /\ pc = "done" => Len(results) = 1


CurrentOutputPath == OutputPath(TotalFormats, FmtName)

\* C24: in each format, concatenation starts only after every scene capture
\* of the format has completed successfully, the subtitle file is written
\* only after the concatenation succeeded, burn-in runs only on a subtitle
\* file written in this format, the FormatOutput is appended only after
\* them, and Done is reached only after every format has appended its
\* FormatOutput.
C24_StepOrder ==
    [][ /\ Len(concat_args') > Len(concat_args) =>
              /\ Len(scene_results) = NumScenes
              /\ collected = NumScenes
              /\ \A k \in 1..NumScenes : IsOk(scene_results[k])
        /\ srt_files' # srt_files =>
              /\ fmt_idx \in concat_done
              /\ outputs[CurrentOutputPath] # NoFile
        /\ (pc = "burn_in" /\ outputs' # outputs) =>
              /\ IsSome(subtitle_path)
              /\ srt_files[CurrentOutputPath] # NoFile
              /\ fmt_idx \in concat_done
        /\ Len(results') > Len(results) =>
              /\ fmt_idx \in concat_done
              /\ pc = "push"
              /\ Len(results) = fmt_idx
              /\ results'[Len(results')].subtitle_path = subtitle_path
              /\ IsSome(subtitle_path) => srt_files[CurrentOutputPath] # NoFile
        /\ (pc # "done" /\ pc' = "done") =>
              /\ Len(results) = TotalFormats
              /\ concat_done = 0..(TotalFormats - 1)
      ]_vars

C24_Witness ==
    /\ pc = "done"
    /\ Len(results) = 2
    /\ NumScenes = 2
    /\ \A k \in 1..2 : /\ IsSome(results[k].subtitle_path)
                       /\ outputs[results[k].output_path].burned


\* n is the least whole number of frames covering effective_duration at fps.
IsCeilOfDurationTimesFps(n) ==
    /\ n * 1000 >= c_in.effective_duration * c_in.fps
    /\ (n - 1) * 1000 < c_in.effective_duration * c_in.fps

\* finish() has been called on the scene's encoder.
FinishCalled == encoder.state \in {"finished", "failed"}

\* C25: an animated scene writes one image per frame index, in the order
\* 0, 1, .., and calls finish only after ceil(effective_duration * fps)
\* writes; a static scene captures one image and never enters the loop.
C25_FrameCountAndOrder ==
    c_in # <<>> =>
        /\ \A k \in 1..Len(encoder.frames) : encoder.frames[k] = k - 1
        /\ ~c_in.is_static =>
              /\ (FinishCalled \/ (CaptureReturned /\ IsOk(Unwrap(c_ret))))
                    => IsCeilOfDurationTimesFps(Len(encoder.frames))
              /\ Len(encoder.frames) > 0 =>
                    (Len(encoder.frames) - 1) * 1000 < c_in.effective_duration * c_in.fps
        /\ c_in.is_static =>
              /\ encoder = NoEncoder
              /\ c_pc \notin {"encoder_new", "loop_head", "render_html", "set_content",
                              "evaluate", "screenshot", "write_frame", "finish", "close"}
              /\ (CaptureReturned /\ IsOk(Unwrap(c_ret))) => scene_file = SceneVideo(1, TRUE)

C25_Witness ==
    /\ CaptureReturned
    /\ IsOk(Unwrap(c_ret))
    /\ ~c_in.is_static
    /\ c_in.effective_duration = 1500
    /\ c_in.fps = 1
    /\ encoder.frames = <<0, 1>>
    /\ encoder.state = "finished"


\* The narration window of the scene is empty or inverted: its end offset
\* (effective_duration - content_padding_after) is not after its start
\* offset (audio_delay_secs).
WindowEmptyOrInverted ==
    c_in.effective_duration - c_in.content_padding_after <= c_in.audio_delay_secs

\* C28: every content-progress value injected for a frame of an animated
\* scene is a finite number in [0, 1]; with an empty or inverted narration
\* window it is the raw frame / total_frames.
C28_ContentProgressInUnitInterval ==
    signals # <<>> =>
        LET cp == signals.content_progress
        IN  /\ cp.den > 0
            /\ 0 <= cp.num /\ cp.num <= cp.den
            /\ WindowEmptyOrInverted =>
                  cp.num * signals.total_frames = signals.frame * cp.den

C28_Witness ==
    /\ signals # <<>>
    /\ WindowEmptyOrInverted
    /\ c_in.effective_duration - c_in.content_padding_after < c_in.audio_delay_secs
    /\ signals.frame = 1
    /\ signals.content_progress = Frac(1, 2)


XfadeBuilt == call # <<>> /\ call.fn = "xfade_command" /\ IsSome(ret)

\* The xfade filters of the built command, in boundary order.
XfadeFilters == SelectSeq(Unwrap(ret).filter_parts, LAMBDA f : f.filter = "xfade")

\* The length of the blend at boundary b (1-based): the transition's
\* duration, or 1 ms where the boundary has no transition.
BlendLength(b) ==
    IF call.transitions[b] = NoneOpt THEN 1 ELSE Unwrap(call.transitions[b]).duration

RECURSIVE BlendLengthsUpTo(_)
BlendLengthsUpTo(b) == IF b = 0 THEN 0 ELSE BlendLengthsUpTo(b - 1) + BlendLength(b)

\* C26: the offset emitted for boundary i is the cumulative duration of
\* scenes 0..i minus the cumulative blend lengths of boundaries 0..i, raised
\* to 0 when negative; clamping one boundary does not change the value the
\* later boundaries start from.
C26_BlendOffsets ==
    XfadeBuilt =>
        /\ Len(XfadeFilters) = Len(call.scene_durations) - 1
        /\ \A b \in 1..Len(XfadeFilters) :
              LET unclamped == SumFirst(call.scene_durations, b) - BlendLengthsUpTo(b)
              IN  /\ XfadeFilters[b].offset >= 0
                  /\ XfadeFilters[b].offset = IF unclamped < 0 THEN 0 ELSE unclamped

\* A boundary whose value was negative is followed by one that still counts
\* the negative part.
C26_Witness ==
    /\ XfadeBuilt
    /\ call.scene_durations = <<500, 1000, 500>>
    /\ call.transitions[1] # NoneOpt /\ Unwrap(call.transitions[1]).duration = 1500
    /\ call.transitions[2] = NoneOpt
    /\ XfadeFilters[1].offset = 0
    /\ XfadeFilters[2].offset = 0

AudioTracks ==
    SelectSeq(Unwrap(ret).filter_parts,
              LAMBDA f : f.filter \in {"aformat", "anullsrc_atrim"})

Acrossfades == SelectSeq(Unwrap(ret).filter_parts, LAMBDA f : f.filter = "acrossfade")

\* C27: the audio chain is built exactly when some scene file has an audio
\* stream; then every scene gives one track (its own audio, or silence cut
\* to the scene's duration), joined by n-1 cross-fades as long as the video
\* blends of the same boundaries and ending in the mapped audio output;
\* otherwise no audio is mapped.
C27_AudioChain ==
    XfadeBuilt =>
        LET n == Len(call.scene_durations)
            some_audio == \E k \in 1..n : call.has_audio[k]
        IN  IF some_audio
            THEN /\ Len(AudioTracks) = n
                 /\ \A k \in 1..n :
                       /\ AudioTracks[k].output = <<"sa", k - 1>>
                       /\ call.has_audio[k] =>
                             /\ AudioTracks[k].filter = "aformat"
                             /\ AudioTracks[k].input = <<k - 1, "a">>
                       /\ ~call.has_audio[k] =>
                             /\ AudioTracks[k].filter = "anullsrc_atrim"
                             /\ AudioTracks[k].atrim = call.scene_durations[k]
                 /\ Len(Acrossfades) = n - 1
                 /\ \A b \in 1..(n - 1) :
                       /\ Acrossfades[b].d = XfadeFilters[b].duration
                       /\ Acrossfades[b].input_b = <<"sa", b>>
                       /\ Acrossfades[b].input_a
                             = IF b = 1 THEN <<"sa", 0>> ELSE Acrossfades[b - 1].output
                 /\ Acrossfades[n - 1].output = "aout"
                 /\ Unwrap(ret).maps = <<"vout", "aout">>
            ELSE /\ AudioTracks = <<>>
                 /\ Acrossfades = <<>>
                 /\ Unwrap(ret).maps = <<"vout">>

C27_Witness ==
    /\ XfadeBuilt
    /\ call.has_audio = <<FALSE, TRUE, FALSE>>
    /\ Len(Acrossfades) = 2
    /\ AudioTracks[1].filter = "anullsrc_atrim"
    /\ AudioTracks[2].filter = "aformat"
    /\ Unwrap(ret).maps = <<"vout", "aout">>


\* The executor keeps polling the capture stream: a capture that can be
\* started is started, every started capture terminates, and collect()
\* returns once the stream reports its end.
SpecCaptureStageFair ==
    /\ Spec
    /\ WF_vars(SpawnCapture)
    /\ WF_vars(\E i \in 0..(MaxScenes - 1) : CompleteCapture(i))
    /\ WF_vars(CaptureStageDone)

\* C29: for every max-concurrency value, 0 included, and every number of
\* scenes, the capture stage of a format terminates with one result per
\* scene, each scene's capture started once.
C29_CaptureStageTerminates ==
    (pc = "capture") ~>
        (/\ pc = "collect"
         /\ Len(scene_results) = NumScenes
         /\ next_scene = NumScenes
         /\ \A i \in 0..(NumScenes - 1) :
               Cardinality({ k \in 1..Len(completion_order) : completion_order[k] = i }) = 1)


\* The time at which scene i (0-based) starts in a concatenated video: the
\* sum of the scenes before it on the copy and stream-copy paths; on the
\* cross-fade path the offset at which the blend into scene i begins.
SceneStart(video, i) ==
    IF i = 0 THEN 0
    ELSE IF video.route = "xfade" THEN Max(offset(video.durs, transitions, i - 1), 0)
    ELSE SumFirst(video.durs, i)

\* C30: the offset added to the word timestamps of scene i is the time at
\* which scene i starts in the concatenated video, cross-fades included.
C30_SubtitleOffsetsMatchTimeline ==
    \A p \in ConcatenatedVideos :
        srt_files[p] # NoFile =>
            \A i \in DOMAIN srt_files[p].offsets :
                srt_files[p].offsets[i] = SceneStart(outputs[p], i)

====
